---------------------------- MODULE Spec2Model ----------------------------
(***************************************************************************)
(* Model of the shop management application in src/streamlit.py: the two  *)
(* SQLite tables (products, sales), the functions that write them          *)
(* (add_product, record_sale), the Streamlit pages that call those         *)
(* functions, and the read-side functions (get_products, get_sales,        *)
(* get_weekly_sales, get_insights) as operators over the tables.           *)
(*                                                                         *)
(* Abstractions.  Time is counted in whole days: a timestamp is the        *)
(* proleptic Gregorian ordinal of its date, so the time of day and the     *)
(* truncation of microseconds by strftime are not represented.  Prices are *)
(* integers (units of the smallest price step), so revenues are exact.     *)
(* A uuid4 identifier is modelled by the row's position in its table,      *)
(* which is fresh for every insert because rows are never deleted.         *)
(* Floating-point quotients are kept as exact fractions; a division by     *)
(* zero yields the IEEE values pandas produces ("inf", "nan"), not an      *)
(* exception.                                                              *)
(***************************************************************************)
EXTENDS Integers, Sequences, FiniteSets

\* products: the rows of table products (lines 14-19), in insertion order,
\*           each [id, name, price, quantity].
\* sales:    the rows of table sales (lines 22-28), in insertion order, each
\*           [id, product_id, quantity_sold, sale_date]; sale_date is text.
\* now:      the value of datetime.now(), as a day ordinal.
\* sess:     per browser session, where its run of the Record Sale page
\*           stands ("idle", or "form" once lines 148-149 have read the
\*           products) and the product list that run has read.
VARIABLES products, sales, now, sess

vars == <<products, sales, now, sess>>

(***************************************************************************)
(* Bounds of the model.                                                    *)
(***************************************************************************)
MaxProducts == 2
MaxSales == 2

Names == {"a", "b"}
Prices == {2, 3}
Quantities == {5}
SoldQuantities == {1, 5}
Sessions == {"s1", "s2"}

(***************************************************************************)
(* Calendar: datetime.now().strftime, pd.to_datetime, .dt.year and         *)
(* .dt.isocalendar().week, computed as the proleptic Gregorian calendar    *)
(* and ISO-8601 define them.                                               *)
(***************************************************************************)
IsLeap(y) == (y % 4 = 0) /\ ((y % 100 # 0) \/ (y % 400 = 0))

\* The number of days of year y before the first day of month m.
DaysBeforeMonth(y, m) ==
    <<0, 31, 59, 90, 120, 151, 181, 212, 243, 273, 304, 334>>[m]
       + (IF m > 2 /\ IsLeap(y) THEN 1 ELSE 0)

DaysBeforeYear(y) ==
    (y - 1) * 365 + ((y - 1) \div 4) - ((y - 1) \div 100) + ((y - 1) \div 400)

\* pd.to_datetime of a stored 'YYYY-MM-DD ...' text: the day ordinal.
to_datetime(date) ==
    DaysBeforeYear(date[1]) + DaysBeforeMonth(date[1], date[2]) + date[3]

\* strftime('%Y-%m-%d ...') of a day ordinal: the text <<year, month, day>>.
strftime(ord) ==
    LET n0   == ord - 1
        n400 == n0 \div 146097
        r400 == n0 % 146097
        n100 == r400 \div 36524
        r100 == r400 % 36524
        n4   == r100 \div 1461
        r4   == r100 % 1461
        n1   == r4 \div 365
        n    == r4 % 365
        year == n400 * 400 + n100 * 100 + n4 * 4 + n1 + 1
        m0   == (n + 50) \div 32
        month == IF DaysBeforeMonth(year, m0) > n THEN m0 - 1 ELSE m0
        prec  == DaysBeforeMonth(year, month)
    IN  IF n1 = 4 \/ n100 = 4 THEN <<year - 1, 12, 31>>
        ELSE <<year, month, n - prec + 1>>

\* .dt.year: the calendar year of a timestamp.
CalendarYear(ord) == strftime(ord)[1]

\* Ordinal of the Monday that starts ISO week 1 of year y.
IsoWeek1Monday(y) ==
    LET firstday     == DaysBeforeYear(y) + 1
        firstweekday == (firstday + 6) % 7
        monday       == firstday - firstweekday
    IN  IF firstweekday > 3 THEN monday + 7 ELSE monday

\* .dt.isocalendar(): <<ISO year, ISO week>> of a timestamp.
IsoCalendar(ord) ==
    LET y == CalendarYear(ord)
    IN  IF ord < IsoWeek1Monday(y)
        THEN <<y - 1, ((ord - IsoWeek1Monday(y - 1)) \div 7) + 1>>
        ELSE IF ord >= IsoWeek1Monday(y + 1)
             THEN <<y + 1, 1>>
             ELSE <<y, ((ord - IsoWeek1Monday(y)) \div 7) + 1>>

IsoWeek(ord) == IsoCalendar(ord)[2]

\* The days the clock of the model takes: Mon 25 Nov 2024 (ISO 2024-W48),
\* Mon 23 Dec 2024 (2024-W52) and Mon 30 Dec 2024 (2025-W01).  25 Nov is
\* more than 30 days before 30 Dec and fewer before 23 Dec.
ClockDays ==
    { to_datetime(<<2024, 11, 25>>), to_datetime(<<2024, 12, 23>>),
      to_datetime(<<2024, 12, 30>>) }

FirstDay == CHOOSE d \in ClockDays : \A e \in ClockDays : d <= e

\* The calendar operators tabulated over the days of the clock and their
\* texts, so that each is computed once.
TextOfDay == [d \in ClockDays |-> strftime(d)]
DayOfText == [x \in {strftime(d) : d \in ClockDays} |-> to_datetime(x)]
YearOfDay == [d \in ClockDays |-> CalendarYear(d)]
WeekOfDay == [d \in ClockDays |-> IsoWeek(d)]

(***************************************************************************)
(* The tables and the functions that write them.                          *)
(***************************************************************************)
\* cursor.execute('INSERT INTO products ...'), with a fresh uuid4 as id.
add_product(name, price, quantity) ==
    products' = Append(products,
                       [id |-> Len(products) + 1, name |-> name,
                        price |-> price, quantity |-> quantity])

\* record_sale with the WHERE clause of its UPDATE left out.
record_sale_every_row(product_id, quantity_sold) ==
    /\ sales' = Append(sales,
                       [id |-> Len(sales) + 1, product_id |-> product_id,
                        quantity_sold |-> quantity_sold,
                        sale_date |-> TextOfDay[now]])
    /\ products' = [i \in DOMAIN products |->
                      [products[i] EXCEPT !.quantity = @ - quantity_sold]]

\* INSERT INTO sales ..., then UPDATE products SET quantity = quantity - ?
\* WHERE id = ?  (no row is updated when no product has that id).
record_sale(product_id, quantity_sold) ==
    /\ sales' = Append(sales,
                       [id |-> Len(sales) + 1, product_id |-> product_id,
                        quantity_sold |-> quantity_sold,
                        sale_date |-> TextOfDay[now]])
    /\ products' = [i \in DOMAIN products |->
                      IF products[i].id = product_id
                      THEN [products[i] EXCEPT !.quantity = @ - quantity_sold]
                      ELSE products[i]]

(***************************************************************************)
(* Helpers for the dataframe operations.                                   *)
(***************************************************************************)
RECURSIVE Sum(_)
Sum(s) == IF s = <<>> THEN 0 ELSE Head(s) + Sum(Tail(s))

Min(S) == CHOOSE x \in S : \A y \in S : x <= y

\* Lexicographic order on <<year, week>> keys, as a sorted groupby uses it.
KeyLess(k1, k2) == k1[1] < k2[1] \/ (k1[1] = k2[1] /\ k1[2] < k2[2])

\* The keys in descending order.
RECURSIVE SortKeysDescending(_)
SortKeysDescending(K) ==
    IF K = {} THEN <<>>
    ELSE LET k == CHOOSE x \in K : \A y \in K \ {x} : KeyLess(y, x)
         IN  <<k>> \o SortKeysDescending(K \ {k})

RECURSIVE SortKeys(_)
SortKeys(K) ==
    IF K = {} THEN <<>>
    ELSE LET k == CHOOSE x \in K : \A y \in K \ {x} : KeyLess(x, y)
         IN  <<k>> \o SortKeys(K \ {k})

\* A float that results from a division: an exact fraction, or the IEEE
\* value a zero divisor gives.
Frac(n, d) == [kind |-> "num", num |-> n, den |-> d]

FloatDiv(n, d) ==
    IF d # 0 THEN Frac(n, d)
    ELSE IF n > 0 THEN [kind |-> "inf", num |-> 1, den |-> 0]
    ELSE IF n < 0 THEN [kind |-> "-inf", num |-> -1, den |-> 0]
    ELSE [kind |-> "nan", num |-> 0, den |-> 0]

\* x < c for a float x and a positive integer c; false for NaN and +inf.
FloatLess(x, c) ==
    \/ x.kind = "-inf"
    \/ x.kind = "num" /\ x.den > 0 /\ x.num < c * x.den
    \/ x.kind = "num" /\ x.den < 0 /\ x.num > c * x.den

(***************************************************************************)
(* get_products: the products table with the derived 'Stock Status'.      *)
(***************************************************************************)
LowStockLimit == 5

\* The stock status with quantity 5 counted as low.
StockStatusInclusive(x) ==
    IF x = 0 THEN "Out of Stock"
    ELSE IF x <= LowStockLimit THEN "Low Stock" ELSE "In Stock"

StockStatus(x) ==
    IF x = 0 THEN "Out of Stock"
    ELSE IF x < LowStockLimit THEN "Low Stock" ELSE "In Stock"

get_products(P) ==
    [i \in DOMAIN P |->
        [ID |-> P[i].id, Name |-> P[i].name, Price |-> P[i].price,
         Quantity |-> P[i].quantity,
         StockStatus |-> StockStatus(P[i].quantity)]]

(***************************************************************************)
(* get_sales: sales JOIN products ON product_id = id, plus 'Revenue'.      *)
(***************************************************************************)
Revenue(quantity_sold, price) == quantity_sold * price

\* A LEFT JOIN: a sale without product keeps a row of empty columns.
LeftJoinRow(s, P) ==
    LET match == SelectSeq(P, LAMBDA p : p.id = s.product_id)
    IN  IF match = <<>>
        THEN <<[SaleID |-> s.id, Name |-> "", QuantitySold |-> s.quantity_sold,
                SaleDate |-> s.sale_date, Price |-> 0, Revenue |-> 0]>>
        ELSE [i \in DOMAIN match |->
                 [SaleID |-> s.id, Name |-> match[i].name,
                  QuantitySold |-> s.quantity_sold, SaleDate |-> s.sale_date,
                  Price |-> match[i].price,
                  Revenue |-> Revenue(s.quantity_sold, match[i].price)]]

\* The joined rows of one sale: one per product row with the sale's id.
JoinRow(s, P) ==
    LET match == SelectSeq(P, LAMBDA p : p.id = s.product_id)
    IN  [i \in DOMAIN match |->
            [SaleID |-> s.id, Name |-> match[i].name,
             QuantitySold |-> s.quantity_sold, SaleDate |-> s.sale_date,
             Price |-> match[i].price,
             Revenue |-> Revenue(s.quantity_sold, match[i].price)]]

RECURSIVE get_sales(_, _)
get_sales(S, P) ==
    IF S = <<>> THEN <<>> ELSE JoinRow(Head(S), P) \o get_sales(Tail(S), P)

(***************************************************************************)
(* get_weekly_sales: groupby(['Year', 'Week']) of the enriched sales.      *)
(***************************************************************************)
\* sales['Sale Date'] = pd.to_datetime(...), sales['Week'] =
\* .dt.isocalendar().week, sales['Year'] = .dt.year: the added columns.
WithWeek(rows) ==
    [i \in DOMAIN rows |->
        LET date == DayOfText[rows[i].SaleDate]
        IN  [QuantitySold |-> rows[i].QuantitySold,
             Revenue |-> rows[i].Revenue, SaleDate |-> date,
             Week |-> WeekOfDay[date], Year |-> YearOfDay[date]]]

\* One group of groupby(['Year', 'Week']): the sums, and the earliest date.
Bucket(k, rows) ==
    LET grp == SelectSeq(rows, LAMBDA r : <<r.Year, r.Week>> = k)
    IN  [Year |-> k[1], Week |-> k[2],
         QuantitySold |-> Sum([i \in DOMAIN grp |-> grp[i].QuantitySold]),
         Revenue |-> Sum([i \in DOMAIN grp |-> grp[i].Revenue]),
         WeekStart |-> TextOfDay[Min({grp[i].SaleDate : i \in DOMAIN grp})]]

get_weekly_sales(S, P) ==
    LET rows == WithWeek(get_sales(S, P))
        keys == SortKeys({<<rows[i].Year, rows[i].Week>> : i \in DOMAIN rows})
    IN  [j \in DOMAIN keys |-> Bucket(keys[j], rows)]

(***************************************************************************)
(* get_insights.                                                           *)
(***************************************************************************)
TopCount == 3
LowStockAlertLimit == 5
WindowDays == 30
VelocityDays == 30
UrgentDays == 7
ModerateDays == 14

\* The names that occur in a sequence of enriched sales (the groupby keys).
NamesOf(rows) == {rows[i].Name : i \in DOMAIN rows}

\* groupby('Name')[column].sum() for the columns the insights use.
QuantityByName(rows, n) ==
    LET grp == SelectSeq(rows, LAMBDA r : r.Name = n)
    IN  Sum([i \in DOMAIN grp |-> grp[i].QuantitySold])

\* The revenue of a name summed from the wrong column.
RevenueByNameFromQuantity(rows, n) ==
    LET grp == SelectSeq(rows, LAMBDA r : r.Name = n)
    IN  Sum([i \in DOMAIN grp |-> grp[i].QuantitySold])

RevenueByName(rows, n) ==
    LET grp == SelectSeq(rows, LAMBDA r : r.Name = n)
    IN  Sum([i \in DOMAIN grp |-> grp[i].Revenue])

\* .sort_values(ascending=False).head(3): the totals of the best-selling
\* names; which of several tied names is kept is left open.
top_products(rows) ==
    LET names == NamesOf(rows)
        k     == IF Cardinality(names) < TopCount
                 THEN Cardinality(names) ELSE TopCount
        top   == CHOOSE T \in SUBSET names :
                    /\ Cardinality(T) = k
                    /\ \A n \in T : \A m \in names \ T :
                          QuantityByName(rows, n) >= QuantityByName(rows, m)
    IN  [n \in top |-> QuantityByName(rows, n)]

\* products[products['Quantity'] < 5][['Name', 'Quantity', 'Stock Status']]
low_stock(prods) ==
    LET low == SelectSeq(prods, LAMBDA p : p.Quantity < LowStockAlertLimit)
    IN  [i \in DOMAIN low |->
            [Name |-> low[i].Name, Quantity |-> low[i].Quantity,
             StockStatus |-> low[i].StockStatus]]

\* The trend labels with the two comparisons exchanged.
TrendLabelExchanged(x) ==
    IF ~x.nan /\ x.v < 0 THEN "Increasing"
    ELSE IF ~x.nan /\ x.v > 0 THEN "Decreasing" ELSE "Stable"

\* The lambda applied to one element of 'Quantity Sold'.diff(): the first
\* element is NaN, for which both comparisons are false.
TrendLabel(x) ==
    IF ~x.nan /\ x.v > 0 THEN "Increasing"
    ELSE IF ~x.nan /\ x.v < 0 THEN "Decreasing" ELSE "Stable"

\* A difference that takes 0 as the predecessor of the first bucket.
DiffFromZero(weekly, j) ==
    IF j = 1 THEN [nan |-> FALSE, v |-> weekly[1].QuantitySold]
    ELSE [nan |-> FALSE,
          v |-> weekly[j].QuantitySold - weekly[j - 1].QuantitySold]

Diff(weekly, j) ==
    IF j = 1 THEN [nan |-> TRUE, v |-> 0]
    ELSE [nan |-> FALSE,
          v |-> weekly[j].QuantitySold - weekly[j - 1].QuantitySold]

weekly_trend(weekly) ==
    [j \in DOMAIN weekly |->
        [Year |-> weekly[j].Year, Week |-> weekly[j].Week,
         QuantitySold |-> weekly[j].QuantitySold,
         Revenue |-> weekly[j].Revenue, WeekStart |-> weekly[j].WeekStart,
         Trend |-> IF Len(weekly) >= 2 THEN TrendLabel(Diff(weekly, j))
                   ELSE "Insufficient Data"]]

\* sales.groupby('Name')['Revenue'].sum() / total_revenue * 100: per name,
\* the group's revenue and its share in percent (a float).
revenue_contribution(rows) ==
    LET total_revenue == Sum([i \in DOMAIN rows |-> rows[i].Revenue])
    IN  [n \in NamesOf(rows) |->
            [Revenue |-> RevenueByName(rows, n),
             Share |-> FloatDiv(RevenueByName(rows, n) * 100, total_revenue)]]

\* recent_sales.groupby('Name')['Quantity Sold'].sum() / 30
sales_velocity(rows, t) ==
    LET recent == SelectSeq(rows,
                     LAMBDA r : DayOfText[r.SaleDate] >= t - WindowDays)
    IN  [n \in NamesOf(recent) |->
            Frac(QuantityByName(recent, n), VelocityDays)]

RestockUrgency(days) ==
    IF FloatLess(days, UrgentDays) THEN "Urgent"
    ELSE IF FloatLess(days, ModerateDays) THEN "Moderate" ELSE "Low"

\* products.merge(sales_velocity, on='Name', how='left').fillna(0), then
\* 'Days to Depletion' = Quantity / velocity and its urgency.
restock_recommendations(prods, rows, t) ==
    LET velocity == sales_velocity(rows, t)
        Merged(p) == IF p.Name \in DOMAIN velocity
                     THEN velocity[p.Name] ELSE Frac(0, 1)
        Days(p) == LET v == Merged(p)
                   IN  FloatDiv(p.Quantity * v.den, v.num)
    IN  [i \in DOMAIN prods |->
            [ID |-> prods[i].ID, Name |-> prods[i].Name,
             Quantity |-> prods[i].Quantity,
             Velocity |-> Merged(prods[i]),
             DaysToDepletion |-> Days(prods[i]),
             RestockUrgency |-> RestockUrgency(Days(prods[i]))]]

get_insights(S, P, t) ==
    [top_products |-> top_products(get_sales(S, P)),
     low_stock |-> low_stock(get_products(P)),
     weekly_sales |-> weekly_trend(get_weekly_sales(S, P)),
     revenue_contribution |-> revenue_contribution(get_sales(S, P)),
     restock_recommendations |->
         restock_recommendations(get_products(P), get_sales(S, P), t)]

(***************************************************************************)
(* The Streamlit pages.  Every submission reruns the script: the Record    *)
(* Sale page first reads the product list (get_products, product_dict) and *)
(* then, as a later step, checks the quantity against that list and calls  *)
(* record_sale.  Script runs of different sessions run in different        *)
(* threads on different connections, so another session's submission can   *)
(* fall between the two steps.                                             *)
(***************************************************************************)
Idle == [pc |-> "idle", products |-> <<>>]

\* product_dict = {row['Name']: row['ID'] ...}: the last row of a name wins.
product_dict(prods) ==
    [n \in {prods[i].Name : i \in DOMAIN prods} |->
        LET last == CHOOSE i \in DOMAIN prods :
                       /\ prods[i].Name = n
                       /\ \A j \in DOMAIN prods : prods[j].Name = n => j <= i
        IN  prods[last].ID]

\* products[products['ID'] == product_id]['Quantity'].iloc[0]
available_quantity(prods, product_id) ==
    LET rows == SelectSeq(prods, LAMBDA p : p.ID = product_id)
    IN  rows[1].Quantity

\* Add Product page, lines 127-129: the form is accepted when the name is
\* not empty, price > 0 and quantity >= 0.
AddProductPage ==
    /\ Len(products) < MaxProducts
    /\ \E name \in Names \cup {""}, price \in Prices, quantity \in Quantities :
          /\ name # "" /\ price > 0 /\ quantity >= 0
          /\ add_product(name, price, quantity)
    /\ UNCHANGED <<sales, now, sess>>

\* Add Product page, lines 130-131: st.error, nothing is written.
AddProductRejected ==
    /\ \E name \in Names \cup {""}, price \in Prices, quantity \in Quantities :
          ~(name # "" /\ price > 0 /\ quantity >= 0)
    /\ UNCHANGED vars

\* Record Sale page, lines 148-149: read the products of the form.
RecordSaleRead(s) ==
    /\ sess[s].pc = "idle"
    /\ sess' = [sess EXCEPT ![s] =
                  [pc |-> "form", products |-> get_products(products)]]
    /\ UNCHANGED <<products, sales, now>>

\* Record Sale page, lines 153-157: the submitted sale passes the check
\* against the products read and is recorded.
RecordSaleSubmit(s) ==
    /\ sess[s].pc = "form"
    /\ Len(sales) < MaxSales
    /\ \E product_name \in DOMAIN product_dict(sess[s].products),
          quantity_sold \in SoldQuantities :
          LET product_id == product_dict(sess[s].products)[product_name]
          IN  /\ quantity_sold
                   <= available_quantity(sess[s].products, product_id)
              /\ record_sale(product_id, quantity_sold)
    /\ sess' = [sess EXCEPT ![s] = Idle]
    /\ UNCHANGED now

\* Record Sale page, lines 158-159: the check fails, st.error is shown.
RecordSaleReject(s) ==
    /\ sess[s].pc = "form"
    /\ \E product_name \in DOMAIN product_dict(sess[s].products),
          quantity_sold \in SoldQuantities :
          LET product_id == product_dict(sess[s].products)[product_name]
          IN  quantity_sold > available_quantity(sess[s].products, product_id)
    /\ sess' = [sess EXCEPT ![s] = Idle]
    /\ UNCHANGED <<products, sales, now>>

\* Record Sale page with no product to select: product_dict[None] raises
\* KeyError at line 154 and the script run ends.
RecordSaleNoProduct(s) ==
    /\ sess[s].pc = "form"
    /\ DOMAIN product_dict(sess[s].products) = {}
    /\ sess' = [sess EXCEPT ![s] = Idle]
    /\ UNCHANGED <<products, sales, now>>

\* The clock (datetime.now()) moves on to a later day.
Tick ==
    /\ \E d \in ClockDays : d > now /\ now' = d
    /\ UNCHANGED <<products, sales, sess>>

Init ==
    /\ products = <<>>
    /\ sales = <<>>
    /\ now = FirstDay
    /\ sess = [s \in Sessions |-> Idle]

Next ==
    \/ AddProductPage
    \/ AddProductRejected
    \/ \E s \in Sessions : RecordSaleRead(s)
    \/ \E s \in Sessions : RecordSaleSubmit(s)
    \/ \E s \in Sessions : RecordSaleReject(s)
    \/ \E s \in Sessions : RecordSaleNoProduct(s)
    \/ Tick

Spec == Init /\ [][Next]_vars

(***************************************************************************)
(* The functions called directly, with any arguments: add_product and      *)
(* record_sale check nothing themselves, so a sale may name a product id   *)
(* that no row has (0) or exceed the stock.  The read-side functions are   *)
(* checked on every store this reaches.                                    *)
(***************************************************************************)
AddProductCall ==
    /\ Len(products) < MaxProducts
    /\ \E name \in Names, price \in Prices, quantity \in Quantities :
          add_product(name, price, quantity)
    /\ UNCHANGED <<sales, now, sess>>

RecordSaleCall ==
    /\ Len(sales) < MaxSales
    /\ \E product_id \in 0 .. Len(products),
          quantity_sold \in SoldQuantities :
          record_sale(product_id, quantity_sold)
    /\ UNCHANGED <<now, sess>>

NextCalls == AddProductCall \/ RecordSaleCall \/ Tick

SpecCalls == Init /\ [][NextCalls]_vars

(***************************************************************************)
(* Properties.  The expected values are computed from the tables           *)
(* themselves, not from the operators they are stated about.               *)
(***************************************************************************)
RECURSIVE SumOver(_, _)
SumOver(f, D) ==
    IF D = {} THEN 0
    ELSE LET x == CHOOSE y \in D : TRUE IN f[x] + SumOver(f, D \ {x})

\* The sales whose product id some product row has, and its product.
Matched == {i \in DOMAIN sales :
               \E j \in DOMAIN products : products[j].id = sales[i].product_id}

ProductOf(i) ==
    CHOOSE j \in DOMAIN products : products[j].id = sales[i].product_id

\* Total quantity and total revenue of the matched sales.
TotalQuantity == SumOver([i \in Matched |-> sales[i].quantity_sold], Matched)

TotalRevenue ==
    SumOver([i \in Matched |->
                sales[i].quantity_sold * products[ProductOf(i)].price],
            Matched)

\* The weekly trend, the low-stock list, the revenue contribution and the
\* restock recommendations that get_insights returns for the current store.
InsightsWeekly == weekly_trend(get_weekly_sales(sales, products))
InsightsLowStock == low_stock(get_products(products))
InsightsRevenue == revenue_contribution(get_sales(sales, products))
InsightsRestock ==
    restock_recommendations(get_products(products),
                            get_sales(sales, products), now)

\* C1: no product's quantity on hand is ever negative, i.e. every recorded
\* sale sold at most the quantity stored when it was written.
QuantityNeverNegative ==
    \A i \in DOMAIN products : products[i].quantity >= 0

\* C2: every enriched sale lies in the weekly bucket keyed by the ISO year
\* and ISO week of its date, and the buckets follow each other in that
\* order; so a sale in 2024-W52 and a sale of more units in 2025-W01 give
\* exactly the buckets (2024, 52), (2025, 1), the second 'Increasing'.
WeeklyKeysAreIso ==
    LET w == InsightsWeekly
        iso(i) == IsoCalendar(to_datetime(sales[i].sale_date))
    IN  /\ {<<w[j].Year, w[j].Week>> : j \in DOMAIN w}
              = {iso(i) : i \in Matched}
        /\ (/\ Len(sales) = 2 /\ Matched = {1, 2}
            /\ iso(1) = <<2024, 52>> /\ iso(2) = <<2025, 1>>
            /\ sales[1].quantity_sold < sales[2].quantity_sold)
           => /\ Len(w) = 2
              /\ <<w[1].Year, w[1].Week>> = <<2024, 52>>
              /\ <<w[2].Year, w[2].Week>> = <<2025, 1>>
              /\ w[2].Trend = "Increasing"

\* C3: with fewer than 2 weekly buckets every trend is 'Insufficient
\* Data'; with 2 or more, every bucket after the first is 'Increasing',
\* 'Decreasing' or 'Stable' as its total quantity is greater than, less than
\* or equal to that of the bucket before it.
TrendFollowsPredecessor ==
    LET w == InsightsWeekly
    IN  /\ Len(w) < 2 => \A j \in DOMAIN w : w[j].Trend = "Insufficient Data"
        /\ Len(w) >= 2 =>
             \A j \in 2 .. Len(w) :
                /\ w[j].QuantitySold > w[j - 1].QuantitySold
                      => w[j].Trend = "Increasing"
                /\ w[j].QuantitySold < w[j - 1].QuantitySold
                      => w[j].Trend = "Decreasing"
                /\ w[j].QuantitySold = w[j - 1].QuantitySold
                      => w[j].Trend = "Stable"

TrendWitness ==
    LET w == InsightsWeekly
    IN  /\ Len(w) >= 2
        /\ w[2].QuantitySold < w[1].QuantitySold
        /\ w[2].Trend = "Decreasing"

\* C4: a product none of whose own sales lies in the trailing 30-day window
\* has velocity 0 and urgency 'Low', whatever its quantity and whatever the
\* other products are.
NoOwnRecentSalesMeansLow ==
    LET r == InsightsRestock
    IN  \A j \in DOMAIN products :
           (\A i \in DOMAIN sales :
               sales[i].product_id = products[j].id
                  => to_datetime(sales[i].sale_date) < now - 30)
           => /\ r[j].ID = products[j].id
              /\ r[j].Velocity.num = 0
              /\ r[j].RestockUrgency = "Low"

\* C5: the revenue contribution is empty when the total revenue is 0;
\* otherwise the per-name revenues add up to the total revenue of the
\* enriched sales and the shares add up to 100 percent.
RevenueSharesSumToTotal ==
    LET rc == InsightsRevenue
    IN  /\ TotalRevenue = 0 => DOMAIN rc = {}
        /\ TotalRevenue > 0 =>
              /\ SumOver([n \in DOMAIN rc |-> rc[n].Revenue], DOMAIN rc)
                    = TotalRevenue
              /\ \A n \in DOMAIN rc :
                    rc[n].Share.kind = "num" /\ rc[n].Share.den = TotalRevenue
              /\ SumOver([n \in DOMAIN rc |-> rc[n].Share.num], DOMAIN rc)
                    = 100 * TotalRevenue

RevenueWitness ==
    /\ TotalRevenue > 0
    /\ Cardinality(DOMAIN InsightsRevenue) = 2

\* C6: the weekly buckets are strictly ascending by (year, week), which
\* rules out a repeated key, their quantities add up to the quantity of all
\* enriched sales, and no enriched sale gives no bucket.
WeeklyBucketsSortedAndComplete ==
    LET w == get_weekly_sales(sales, products)
    IN  /\ \A j, k \in DOMAIN w :
              j < k => \/ w[j].Year < w[k].Year
                       \/ w[j].Year = w[k].Year /\ w[j].Week < w[k].Week
        /\ SumOver([j \in DOMAIN w |-> w[j].QuantitySold], DOMAIN w)
              = TotalQuantity
        /\ Matched = {} => w = <<>>

WeeklyWitness ==
    LET w == get_weekly_sales(sales, products)
    IN  /\ Len(w) = 2 /\ w[1].Week = 1 /\ w[2].Week = 52
        /\ w[1].WeekStart = <<2024, 12, 30>> /\ w[2].WeekStart = <<2024, 12, 23>>

\* C7: the stock status is 'Out of Stock' for quantity 0, 'Low Stock' for
\* 0 < quantity < 5 and 'In Stock' for quantity >= 5, and the low-stock list
\* holds exactly the products with quantity < 5.
StockStatusByQuantity ==
    LET p == get_products(products)
        low == SelectSeq(products, LAMBDA x : x.quantity < 5)
        l == InsightsLowStock
    IN  /\ Len(p) = Len(products)
        /\ \A i \in DOMAIN p :
              /\ p[i].Quantity = products[i].quantity
              /\ p[i].Quantity = 0 => p[i].StockStatus = "Out of Stock"
              /\ (0 < p[i].Quantity /\ p[i].Quantity < 5)
                    => p[i].StockStatus = "Low Stock"
              /\ p[i].Quantity >= 5 => p[i].StockStatus = "In Stock"
        /\ Len(l) = Len(low)
        /\ \A i \in DOMAIN l :
              l[i].Name = low[i].name /\ l[i].Quantity = low[i].quantity

StockWitness ==
    LET p == get_products(products)
    IN  \E j, k \in DOMAIN p :
           /\ p[j].Quantity = 4 /\ p[j].StockStatus = "Low Stock"
           /\ p[k].Quantity = 5 /\ p[k].StockStatus = "In Stock"
           /\ Len(InsightsLowStock) = 1

\* C8: a step that adds a sale adds exactly one, for some product p and
\* quantity q, lowers p's quantity by exactly q and changes nothing else; a
\* step that adds no sale adds at most one product and changes no existing
\* row; no step removes or alters an existing sale or a product's id, name
\* or price.
WritesTouchOnlyTheirRows ==
    [][ /\ Len(sales') >= Len(sales) /\ Len(products') >= Len(products)
        /\ \A i \in DOMAIN sales : sales'[i] = sales[i]
        /\ \A j \in DOMAIN products :
              /\ products'[j].id = products[j].id
              /\ products'[j].name = products[j].name
              /\ products'[j].price = products[j].price
        /\ Len(sales') > Len(sales) =>
              /\ Len(sales') = Len(sales) + 1
              /\ Len(products') = Len(products)
              /\ \A j \in DOMAIN products :
                    products'[j].quantity =
                       IF products[j].id = sales'[Len(sales')].product_id
                       THEN products[j].quantity
                               - sales'[Len(sales')].quantity_sold
                       ELSE products[j].quantity
        /\ Len(sales') = Len(sales) =>
              /\ Len(products') <= Len(products) + 1
              /\ \A j \in DOMAIN products : products'[j] = products[j]
      ]_vars

FrameWitness ==
    /\ Len(products) = 2 /\ Len(sales) = 1
    /\ sales[1].product_id = 1 /\ sales[1].quantity_sold = 1
    /\ products[1].quantity = 4 /\ products[2].quantity = 5

\* C9: get_sales has exactly one record for each sale whose product id a
\* product row has and none for any other sale, and each record carries
\* that product's name and price and the revenue quantity sold * price.
JoinIsInner ==
    LET rows == get_sales(sales, products)
    IN  /\ \A i \in DOMAIN sales :
              Cardinality({k \in DOMAIN rows : rows[k].SaleID = sales[i].id})
                 = IF i \in Matched THEN 1 ELSE 0
        /\ \A k \in DOMAIN rows :
              \E i \in Matched :
                 /\ rows[k].SaleID = sales[i].id
                 /\ rows[k].QuantitySold = sales[i].quantity_sold
                 /\ rows[k].Name = products[ProductOf(i)].name
                 /\ rows[k].Price = products[ProductOf(i)].price
                 /\ rows[k].Revenue
                       = sales[i].quantity_sold * products[ProductOf(i)].price

JoinWitness ==
    /\ Len(sales) = 2 /\ Cardinality(Matched) = 1
    /\ Len(get_sales(sales, products)) = 1
    /\ Len(products) = 2 /\ products[1].price # products[2].price

\* C10: with 2 or more weekly buckets the first bucket's trend is 'Stable'.
FirstBucketStable ==
    LET w == InsightsWeekly
    IN  Len(w) >= 2 => w[1].Trend = "Stable"

FirstBucketWitness ==
    LET w == InsightsWeekly
    IN  Len(w) >= 2 /\ w[1].QuantitySold = 5 /\ w[1].Trend = "Stable"

=============================================================================
